---- MODULE Spec2Model ----
(***************************************************************************)
(* Model of the Auto Ticket plugin (src/auto_ticket.py): the settings      *)
(* ledger, the order scanner, the per-order escalation and the Telegram    *)
(* handlers that drive them.                                               *)
(*                                                                         *)
(* Time is counted in hours (the code counts seconds; every comparison of  *)
(* the scanner is between a normalised order time and now - age_hours, so  *)
(* the unit is immaterial).  Strings that the code inspects character by   *)
(* character are sequences of one-letter strings.                          *)
(***************************************************************************)
EXTENDS Integers, Sequences, FiniteSets, TLC

(***************************************************************************)
(* Bounds of the model                                                     *)
(***************************************************************************)
MaxPageLen == 2      \* orders on one page of the order source
MaxTickets == 2      \* tickets counted per order by the support backend
MaxMsgLen == 3       \* letters of a response message
MaxBatch == 2        \* max_orders_in_ticket of the scans and runs explored
MaxRedirects == 12   \* redirects the backend answers in a row to one call
MaxForms == 2        \* ticket forms the backend serves

(***************************************************************************)
(* Program constants                                                       *)
(***************************************************************************)
max_pages == 10
AgeMin == 1
AgeMax == 720
CountMin == 1
CountMax == 50
DefaultAge == 24
DefaultCount == 10
MaxHops == 10
RedirectLimit == 30
Now == 1000

None == "None"

Orders == {"A", "B"}

(***************************************************************************)
(* Sequence helpers                                                        *)
(***************************************************************************)
Range(s) == {s[i] : i \in 1..Len(s)}

Take(s, n) == IF Len(s) <= n THEN s ELSE SubSeq(s, 1, n)

SeqsUpTo(S, n) == UNION {[1..k -> S] : k \in 0..n}

MinOf(S) == CHOOSE x \in S : \A y \in S : x <= y

Count(s, x) == Cardinality({i \in 1..Len(s) : s[i] = x})

(***************************************************************************)
(* State                                                                   *)
(***************************************************************************)
Runs == {1, 2}       \* handler threads that can execute act_send_ticket

VARIABLES
  SETTINGS,              \* the module-level Settings object
  settings_file,         \* content of _SETTINGS_FILE
  pc,                    \* position of every run of act_send_ticket
  age_hours, max_count,  \* arguments of get_old_orders_for_ticket
  old_orders_ids, page_count, start_from,   \* its locals
  orders,                \* the scan's return value / orders_ids of the loop
  idx,                   \* orders of the list already handled by the loop
  reported_successfully, \* local of report_deal_problems
  \* what a specification records of the calls made, for the properties:
  fetches,               \* calls of acc.get_sales made by the scan
  last_page,             \* the page the scan received last
  last_answer,           \* what came with it: error or not, the cursor
  offered,               \* old orders the scan was shown: ids, unsent ones
  requests,              \* calls made for the order handled last, in order
  outcomes,              \* what every order handled by the loop ran into
  pauses,                \* asyncio.sleep(2) calls of the loop
  tickets,               \* per order id: submissions that met the rule
  calls,                 \* the lists report_deal_problems was called with
  last_edit,             \* the last settings edit and the settings before it
  \* one FunPaySupportAPI instance and the support backend it talks to:
  support_api,           \* the instance: how far it got, phpsessid, csrf_token
  ticket_token,          \* local of create_ticket
  forms_loaded,          \* ticket forms the backend has served
  wire,                  \* the HTTP requests of the last call of method
  token_posts            \* per token: ticket-creation POSTs that carried it

scan_vars == <<age_hours, max_count, old_orders_ids, page_count, start_from>>

loop_vars == <<idx, reported_successfully>>

scan_log == <<fetches, last_page, last_answer, offered>>

loop_log == <<requests, outcomes, pauses>>

portal_vars == <<support_api, ticket_token, forms_loaded, wire, token_posts>>

vars == <<SETTINGS, settings_file, pc, scan_vars, orders, loop_vars,
          scan_log, loop_log, tickets, calls, last_edit, portal_vars>>

(***************************************************************************)
(* Settings (lines 46-68)                                                  *)
(***************************************************************************)
Settings(age, count, sent) ==
  [order_age_hours |-> age, max_orders_in_ticket |-> count,
   sent_order_ids |-> sent]

DefaultSettings == Settings(DefaultAge, DefaultCount, <<>>)

\* the file is missing, holds no valid JSON ("corrupt"), or holds a dump
NoFile == [state |-> "missing", data |-> DefaultSettings]

JsonFile(s) == [state |-> "json", data |-> s]

\* pydantic's Field(ge=, le=) validation, applied when the object is built
FieldsValid(data) ==
  /\ data.order_age_hours >= AgeMin /\ data.order_age_hours <= AgeMax
  /\ data.max_orders_in_ticket >= CountMin
  /\ data.max_orders_in_ticket <= CountMax

\* Settings.load: a missing, unreadable or invalid file gives the defaults
load(f) ==
  IF f.state = "json" /\ FieldsValid(f.data) THEN f.data ELSE DefaultSettings

\* Settings.save: the whole object is rewritten
save(s) == JsonFile(s)

(***************************************************************************)
(* Date normaliser (lines 71-93)                                           *)
(***************************************************************************)
ParseableShapes == {"datetime", "today", "yesterday", "d_mon_at",
                    "d_mon_comma", "iso"}

\* mutant: a date that does not parse is taken at its time, not as 0
parse_no_sentinel(date_obj) == date_obj.ts

\* a date is [shape, ts]: the form it is written in and the time it denotes
parse_funpay_date(date_obj) ==
  IF date_obj.shape \in ParseableShapes THEN date_obj.ts ELSE 0

(***************************************************************************)
(* Order source (acc.get_sales, acc.get_order): external, any answer       *)
(***************************************************************************)
DateOld == [shape |-> "datetime", ts |-> Now - 30]
DateNew == [shape |-> "today", ts |-> Now - 2]
DateBad == [shape |-> "garbage", ts |-> Now - 40]

Dates == {DateOld, DateNew, DateBad}

OrderShortcuts == [id : Orders, date : Dates]

Pages == SeqsUpTo(OrderShortcuts, MaxPageLen)

Cursors == {None, "next"}

\* get_sales raises, or returns (next cursor, page)
SalesResults ==
  {[kind |-> "error", next |-> None, page |-> <<>>]}
  \cup [kind : {"ok"}, next : Cursors, page : Pages]

(***************************************************************************)
(* Order scanner (lines 96-144)                                            *)
(***************************************************************************)
cutoff_timestamp(age) == Now - age

\* mutant: only the first entry of the ledger is compared
in_sent_first(order_id, sent) == sent # <<>> /\ order_id = sent[1]

\* order_id in SETTINGS.sent_order_ids (line 124)
in_sent(order_id, sent) == order_id \in Range(sent)

\* mutant: an order dated exactly at the cutoff is taken as well
is_candidate_or_equal(order_timestamp, order_id, cutoff, sent) ==
  order_timestamp <= cutoff /\ ~in_sent(order_id, sent)

\* order_timestamp < cutoff_timestamp and order_id not in sent (line 124)
is_candidate(order_timestamp, order_id, cutoff, sent) ==
  order_timestamp < cutoff /\ ~in_sent(order_id, sent)

\* mutant: the batch counts as full one order late
batch_full_late(ids, maxc) == Len(ids) > maxc

\* the batch is full: len(old_orders_ids) >= max_count (line 127)
batch_full(ids, maxc) == Len(ids) >= maxc

\* the for loop over one page (lines 116-128), from its i-th order on:
\* returns the grown id list and the batch_timestamps
RECURSIVE scan_page(_, _, _, _, _, _, _)
scan_page(page, i, ids, stamps, cutoff, maxc, sent) ==
  IF i > Len(page) THEN [ids |-> ids, stamps |-> stamps]
  ELSE LET order_timestamp == parse_funpay_date(page[i].date)
           order_id == page[i].id
       IN IF order_timestamp = 0
          THEN scan_page(page, i + 1, ids, stamps, cutoff, maxc, sent)
          ELSE LET stamps2 == Append(stamps, order_timestamp)
                   ids2 == IF is_candidate(order_timestamp, order_id,
                                           cutoff, sent)
                           THEN Append(ids, order_id) ELSE ids
               IN IF batch_full(ids2, maxc)
                  THEN [ids |-> ids2, stamps |-> stamps2]
                  ELSE scan_page(page, i + 1, ids2, stamps2, cutoff, maxc,
                                 sent)

\* mutant: one page more than max_pages
scan_continues_late(ids, maxc, pages) ==
  Len(ids) < maxc /\ pages <= max_pages

\* the while condition (line 105)
scan_continues(ids, maxc, pages) == Len(ids) < maxc /\ pages < max_pages

\* mutant: one newer order on the page is enough to stop
any_newer(stamps, cutoff) ==
  \E i \in 1..Len(stamps) : stamps[i] >= cutoff

\* the early stop of lines 130-134
all_newer(stamps, cutoff) ==
  stamps # <<>> /\ MinOf(Range(stamps)) >= cutoff

\* one iteration of the while loop; when the loop ends with it, the return
\* of line 144 as well
ScanFetch(r, res) ==
  /\ pc[r] = "scan"
  /\ scan_continues(old_orders_ids[r], max_count[r], page_count[r])
  /\ UNCHANGED <<SETTINGS, settings_file, age_hours, max_count, loop_vars>>
  /\ IF res.kind = "error" \/ res.page = <<>>
     THEN /\ page_count' = [page_count EXCEPT
                              ![r] = IF res.kind = "error" THEN @ ELSE @ + 1]
          /\ pc' = [pc EXCEPT ![r] = "scanned"]
          /\ orders' = [orders EXCEPT
                          ![r] = Take(old_orders_ids[r], max_count[r])]
          /\ UNCHANGED <<old_orders_ids, start_from>>
     ELSE LET cutoff == cutoff_timestamp(age_hours[r])
              got == scan_page(res.page, 1, old_orders_ids[r], <<>>, cutoff,
                               max_count[r], SETTINGS.sent_order_ids)
              stop == all_newer(got.stamps, cutoff)
              ends == \/ stop
                      \/ res.next = None
                      \/ ~scan_continues(got.ids, max_count[r],
                                         page_count[r] + 1)
          IN /\ page_count' = [page_count EXCEPT ![r] = @ + 1]
             /\ old_orders_ids' = [old_orders_ids EXCEPT ![r] = got.ids]
             /\ start_from' = [start_from EXCEPT
                                 ![r] = IF stop THEN @ ELSE res.next]
             /\ pc' = [pc EXCEPT ![r] = IF ends THEN "scanned" ELSE "scan"]
             /\ orders' = [orders EXCEPT
                             ![r] = IF ends THEN Take(got.ids, max_count[r])
                                    ELSE @]

\* record of a fetch: one more call of get_sales
RecordFetch(r) ==
  fetches' = [fetches EXCEPT ![r] = IF @ > max_pages THEN @ ELSE @ + 1]

\* record of the page a fetch gave
RecordPage(r, res) == last_page' = [last_page EXCEPT ![r] = res.page]

\* record of what came with the page: whether get_sales raised, the cursor
NoAnswer == [kind |-> "none", next |-> None]

RecordAnswer(r, res) ==
  last_answer' = [last_answer EXCEPT
                    ![r] = [kind |-> res.kind, next |-> res.next]]

\* the orders of a page that are dated, in a form that parses, before the
\* cutoff
old_on_page(page, cutoff) ==
  {i \in 1..Len(page) : page[i].date.shape \in ParseableShapes
                        /\ page[i].date.ts < cutoff}

\* record of the old orders a fetch showed: their ids, and how many of them
\* the ledger does not hold (counted up to MaxBatch + 1)
RecordOffered(r, res) ==
  LET shown == old_on_page(res.page, cutoff_timestamp(age_hours[r]))
      unsent == {i \in shown :
                   res.page[i].id \notin Range(SETTINGS.sent_order_ids)}
      total == offered[r].unsent + Cardinality(unsent)
  IN offered' = [offered EXCEPT
                   ![r] = [ids |-> @.ids \cup {res.page[i].id : i \in shown},
                           unsent |-> IF total > MaxBatch THEN MaxBatch + 1
                                      ELSE total]]

(***************************************************************************)
(* Ticket-creation response and its success rule (line 241)                *)
(***************************************************************************)
\* 'заявка отправлена' is written "zo", '/tickets/' is written "/t/"
SuccessPhrase == <<"z", "o">>
TicketPath == <<"/", "t", "/">>

CasePairs == {<<"Z", "z">>, <<"O", "o">>}

\* str.lower, letter by letter
lower_char(c) ==
  IF \E p \in CasePairs : p[1] = c
  THEN (CHOOSE p \in CasePairs : p[1] = c)[2] ELSE c

\* mutant: the message is not lowered
lower_missing(str) == str

lower(str) == [i \in 1..Len(str) |-> lower_char(str[i])]

\* the operator "sub in str" of Python strings
contains(str, sub) ==
  \E i \in 0..(Len(str) - Len(sub)) :
    \A k \in 1..Len(sub) : str[i + k] = sub[k]

\* a JSON value of a field: absent key, null, or a string
Absent == [t |-> "absent", v |-> <<>>]
Null == [t |-> "null", v |-> <<>>]
Str(v) == [t |-> "str", v |-> v]

\* dict.get(key, default) of a field
get(field, default) == IF field.t = "absent" THEN default ELSE field

\* the condition of line 241, evaluated left to right with short-circuit:
\* "True", "False", or "raise" when a sub-expression raises
success_condition(response_json) ==
  IF response_json.t # "dict" THEN "raise"            \* no .get on it
  ELSE IF get(response_json.action, Null) # Str(<<"message">>) THEN "False"
  ELSE LET message == get(response_json.message, Str(<<>>))
           url == get(response_json.url, Str(<<>>))
       IN IF message.t # "str" THEN "raise"           \* None.lower()
          ELSE IF ~contains(lower(message.v), SuccessPhrase) THEN "False"
          ELSE IF url.t # "str" THEN "raise"          \* '...' in None
          ELSE IF contains(url.v, TicketPath) THEN "True" ELSE "False"

(***************************************************************************)
(* One order through _report_deal_problem_raw (lines 224-250)              *)
(***************************************************************************)
PAID == "PAID"

\* the steps of FunPaySupportAPI.get and create_ticket, in call order, each
\* with the request it issues and the failure that can end it
PortalSteps ==
  << [request |-> "get_root_nosession", fails |-> {"boot1_error"}],
     [request |-> "get_root", fails |-> {"boot2_error", "boot_parse"}],
     [request |-> "get_form", fails |-> {"token_error", "no_token"}],
     [request |-> "post_ticket", fails |-> {"post_error", "non_json"}] >>

\* mutant: a POST that fails is followed by a second form and a second POST
portal_requests_retry(o, i) ==
  LET once == [k \in 1..Len(PortalSteps) |-> PortalSteps[k].request]
      last == Len(PortalSteps)
  IN IF o.portal \in PortalSteps[last].fails
     THEN once \o SubSeq(once, last - 1, last)
     ELSE IF \E k \in 1..last : o.portal \in PortalSteps[k].fails
     THEN SubSeq(once, 1,
                 CHOOSE k \in 1..last : o.portal \in PortalSteps[k].fails)
     ELSE once

\* support_api.get() and support_api.create_ticket(): the requests issued
\* from step i on, until the step at which o.portal fails
RECURSIVE portal_requests(_, _)
portal_requests(o, i) ==
  IF i > Len(PortalSteps) THEN <<>>
  ELSE IF o.portal \in PortalSteps[i].fails
       THEN <<PortalSteps[i].request>>
       ELSE <<PortalSteps[i].request>> \o portal_requests(o, i + 1)

\* mutant: the status is fetched but not compared
status_unchecked(o) == o.lookup # "error"

\* the inner try of lines 226-233: does the order pass the status check
status_check(o) == o.lookup = PAID

\* the body of the outer try: [result, requests]
report_attempt(o) ==
  IF ~status_check(o)
  THEN [result |-> "False", requests |-> <<"get_order">>]
  ELSE [result |-> IF o.portal # "json" THEN "raise"
                   ELSE success_condition(o.response),
        requests |-> <<"get_order">> \o portal_requests(o, 1)]

\* mutant: no outer except
catch_none(result) == result

\* the outer except of lines 248-250
catch_all(result) == IF result = "raise" THEN "False" ELSE result

report_deal_problem_raw(o) ==
  [result |-> catch_all(report_attempt(o).result),
   requests |-> report_attempt(o).requests]

\* the success rule as the specification words it: action is "message", the
\* message contains the phrase whatever the case of its letters, the url
\* contains the ticket path
same_letter(a, b) == a = b \/ <<a, b>> \in CasePairs \/ <<b, a>> \in CasePairs

meets_success_rule(response_json) ==
  /\ response_json.t = "dict"
  /\ response_json.action = Str(<<"message">>)
  /\ response_json.message.t = "str"
  /\ \E i \in 0..(Len(response_json.message.v) - Len(SuccessPhrase)) :
       \A k \in 1..Len(SuccessPhrase) :
         same_letter(response_json.message.v[i + k], SuccessPhrase[k])
  /\ response_json.url.t = "str"
  /\ \E i \in 0..(Len(response_json.url.v) - Len(TicketPath)) :
       SubSeq(response_json.url.v, i + 1, i + Len(TicketPath)) = TicketPath

\* the support backend answered the ticket POST of this order with a
\* response that meets the rule
submission_met_rule(o) ==
  o.lookup = PAID /\ o.portal = "json" /\ meets_success_rule(o.response)

NoResponse == [t |-> "none", action |-> Absent, message |-> Absent,
               url |-> Absent]

(***************************************************************************)
(* report_deal_problems (lines 253-267): one iteration of its loop, and    *)
(* its return when the iteration is the last                               *)
(***************************************************************************)
ReportOne(r, o) ==
  /\ pc[r] = "report"
  /\ idx[r] < Len(orders[r])
  /\ LET deal_id == orders[r][idx[r] + 1]
         out == report_deal_problem_raw(o)
     IN IF out.result = "raise"
        THEN /\ pc' = [pc EXCEPT ![r] = "raised"]
             /\ UNCHANGED <<idx, reported_successfully>>
        ELSE /\ idx' = [idx EXCEPT ![r] = @ + 1]
             /\ reported_successfully' =
                  [reported_successfully EXCEPT
                     ![r] = IF out.result = "True" THEN Append(@, deal_id)
                            ELSE @]
             /\ pc' = [pc EXCEPT ![r] = IF idx[r] + 1 = Len(orders[r])
                                        THEN "notify" ELSE "report"]
  /\ UNCHANGED <<SETTINGS, settings_file, scan_vars, orders>>

\* mutant: a pause before the first order as well
pause_before_every(i) == i >= 0

\* if i > 0: await asyncio.sleep(2) (lines 260-261)
pause_before(i) == i > 0

\* record of an iteration: the pause before it, the calls it made and what
\* it ran into
RecordOrder(r, o) ==
  /\ pauses' = [pauses EXCEPT ![r] = IF pause_before(idx[r]) THEN @ + 1
                                     ELSE @]
  /\ requests' = [requests EXCEPT ![r] = report_deal_problem_raw(o).requests]
  /\ outcomes' = [outcomes EXCEPT ![r] = Append(@, o)]

\* record of a submission that met the rule, per order id
RecordTicket(r, o) ==
  tickets' = [tickets EXCEPT
                ![orders[r][idx[r] + 1]] =
                  IF submission_met_rule(o) /\ @ < MaxTickets THEN @ + 1
                  ELSE @]

(***************************************************************************)
(* What the order source and the support portal can answer for one order   *)
(***************************************************************************)
MsgLetters == {"z", "Z", "o", "x"}

TicketUrl == <<"/", "t", "/", "5">>
OtherUrl == <<"/", "x">>

Dict(a, m, u) == [t |-> "dict", action |-> a, message |-> m, url |-> u]

\* a JSON body that is not an object
NotDict == [t |-> "list", action |-> Absent, message |-> Absent,
            url |-> Absent]

Responses ==
  {NotDict} \cup
  {Dict(a, m, u) :
     a \in {Absent, Null, Str(<<"message">>), Str(<<"error">>)},
     m \in {Absent, Null} \cup {Str(v) : v \in SeqsUpTo(MsgLetters, MaxMsgLen)},
     u \in {Absent, Null, Str(TicketUrl), Str(OtherUrl)}}

\* scenario C of the specification
ResponseSent == Dict(Str(<<"message">>), Str(<<"Z", "o">>), Str(TicketUrl))
ResponseError == Dict(Str(<<"error">>), Str(<<"x">>), Absent)

PortalFailures == {"boot1_error", "boot2_error", "boot_parse", "token_error",
                   "no_token", "post_error", "non_json"}

Outcome(l, p, resp) == [lookup |-> l, portal |-> p, response |-> resp]

OutcomesOver(resps) ==
  {Outcome(l, "none", NoResponse) : l \in {"error", "CLOSED", "REFUNDED"}}
  \cup {Outcome(PAID, p, NoResponse) : p \in PortalFailures}
  \cup {Outcome(PAID, "json", resp) : resp \in resps}

Outcomes == OutcomesOver(Responses)

(***************************************************************************)
(* Telegram calls of the handlers                                          *)
(***************************************************************************)
\* whether bot.edit_message_text and bot.answer_callback_query succeed
TgOutcomes == [edit_ok : BOOLEAN, answer_ok : BOOLEAN]

\* _edit (lines 295-299) returns normally; otherwise the exception of the
\* call in its except clause leaves it
edit_returns(tg) == tg.edit_ok \/ tg.answer_ok

(***************************************************************************)
(* act_send_ticket (lines 311-351)                                         *)
(***************************************************************************)
\* the handler returns, or an exception ends it: its locals are gone
Return(r) ==
  /\ pc' = [pc EXCEPT ![r] = "idle"]
  /\ age_hours' = [age_hours EXCEPT ![r] = 0]
  /\ max_count' = [max_count EXCEPT ![r] = 0]
  /\ old_orders_ids' = [old_orders_ids EXCEPT ![r] = <<>>]
  /\ page_count' = [page_count EXCEPT ![r] = 0]
  /\ start_from' = [start_from EXCEPT ![r] = None]
  /\ orders' = [orders EXCEPT ![r] = <<>>]
  /\ idx' = [idx EXCEPT ![r] = 0]
  /\ reported_successfully' = [reported_successfully EXCEPT ![r] = <<>>]

\* mutant: a run starts only while no other run is in progress
may_start_alone(r) == \A q \in Runs : pc[q] = "idle"

\* a handler thread that is free takes the callback; the handler tests and
\* takes no lock (lines 311-324)
may_start(r) == pc[r] = "idle"

\* lines 321-324: answer the callback, show "scanning", enter the scan with
\* the two settings as arguments.  An exception of line 321 or out of _edit
\* ends the handler.
ActSendTicket(r, answer_ok, tg) ==
  /\ may_start(r)
  /\ answer_ok /\ edit_returns(tg)
  /\ pc' = [pc EXCEPT ![r] = "scan"]
  /\ age_hours' = [age_hours EXCEPT ![r] = SETTINGS.order_age_hours]
  /\ max_count' = [max_count EXCEPT ![r] = SETTINGS.max_orders_in_ticket]
  /\ UNCHANGED <<SETTINGS, settings_file, old_orders_ids, page_count,
                 start_from, orders, loop_vars>>

\* lines 325-329: nothing found ends the run (also when _edit raises),
\* otherwise the loop starts
AfterScan(r, tg) ==
  /\ pc[r] = "scanned"
  /\ IF orders[r] = <<>>
     THEN Return(r)
     ELSE /\ pc' = [pc EXCEPT ![r] = "report"]
          /\ UNCHANGED <<scan_vars, orders, loop_vars>>
  /\ UNCHANGED <<SETTINGS, settings_file>>

\* mutant: the ledger is overwritten with the ids of the run
extend_replace(sent, reported_orders) == reported_orders

\* SETTINGS.sent_order_ids.extend(reported_orders) (line 350)
extend(sent, reported_orders) == sent \o reported_orders

\* lines 331-351: report the result, then merge the reported ids into the
\* ledger and save it.  The alert of line 345 is inside a try and its
\* failure is only logged; an exception out of _edit (line 343) ends the
\* handler before the merge.
Finish(r, tg, alert_ok) ==
  /\ pc[r] = "notify"
  /\ Return(r)
  /\ LET reported_orders == reported_successfully[r]
         sent_count == Len(reported_orders)
     IN IF edit_returns(tg) /\ sent_count > 0
        THEN /\ SETTINGS' = [SETTINGS EXCEPT
                               !.sent_order_ids = extend(@, reported_orders)]
             /\ settings_file' = save(SETTINGS')
        ELSE UNCHANGED <<SETTINGS, settings_file>>

(***************************************************************************)
(* Settings edits (lines 353-387) and process start (line 68)              *)
(***************************************************************************)
Digits == <<"0", "1", "2", "3", "4", "5", "6", "7", "8", "9">>

digit_value(c) == (CHOOSE i \in 1..Len(Digits) : Digits[i] = c) - 1

RECURSIVE decimal(_)
decimal(str) ==
  IF str = <<>> THEN 0
  ELSE 10 * decimal(SubSeq(str, 1, Len(str) - 1)) + digit_value(str[Len(str)])

\* m.text is None (a message without text) or a string
NoText == [t |-> "none", v |-> <<>>]
Text(v) == [t |-> "str", v |-> v]

all_digits(str) ==
  str # <<>> /\ \A i \in 1..Len(str) : str[i] \in Range(Digits)

\* int(m.text): the value, or ok = FALSE when int() raises
int(text) ==
  IF text.t # "str" THEN [ok |-> FALSE, val |-> 0]
  ELSE IF all_digits(text.v) THEN [ok |-> TRUE, val |-> decimal(text.v)]
  ELSE IF /\ Len(text.v) >= 2 /\ text.v[1] \in {"-", "+"}
          /\ all_digits(Tail(text.v))
       THEN [ok |-> TRUE,
             val |-> IF text.v[1] = "-" THEN 0 - decimal(Tail(text.v))
                     ELSE decimal(Tail(text.v))]
       ELSE [ok |-> FALSE, val |-> 0]

\* mutant: the upper end is excluded
time_below_max(val) == AgeMin <= val /\ val < AgeMax

\* 1 <= val <= 720 (line 357) and 1 <= val <= 50 (line 375)
time_in_range(val) == AgeMin <= val /\ val <= AgeMax
count_in_range(val) == CountMin <= val /\ val <= CountMax

\* handler of act_edit_time (lines 354-365)
EditTime(text) ==
  /\ LET val == int(text)
     IN IF val.ok /\ time_in_range(val.val)
        THEN /\ SETTINGS' = [SETTINGS EXCEPT !.order_age_hours = val.val]
             /\ settings_file' = save(SETTINGS')
        ELSE UNCHANGED <<SETTINGS, settings_file>>
  /\ UNCHANGED <<pc, scan_vars, orders, loop_vars>>

\* handler of act_edit_count (lines 372-383)
EditCount(text) ==
  /\ LET val == int(text)
     IN IF val.ok /\ count_in_range(val.val)
        THEN /\ SETTINGS' = [SETTINGS EXCEPT !.max_orders_in_ticket = val.val]
             /\ settings_file' = save(SETTINGS')
        ELSE UNCHANGED <<SETTINGS, settings_file>>
  /\ UNCHANGED <<pc, scan_vars, orders, loop_vars>>

\* record of an edit: the field, the text sent, and the settings and the
\* file as they were before it
NoEdit == [field |-> "none", text |-> NoText, settings |-> DefaultSettings,
           file |-> NoFile]

RecordEdit(field, text) ==
  last_edit' = [field |-> field, text |-> text, settings |-> SETTINGS,
                file |-> settings_file]

\* the process is started again while no run is in progress: SETTINGS is
\* loaded from the file (line 68)
Restart ==
  /\ \A r \in Runs : pc[r] = "idle"
  /\ SETTINGS' = load(settings_file)
  /\ UNCHANGED <<settings_file, pc, scan_vars, orders, loop_vars>>

(***************************************************************************)
(* FunPaySupportAPI (lines 147-221) and the HTTP exchange of its method    *)
(***************************************************************************)
RootUrl == "https://support.funpay.com/"
FormUrl == "https://support.funpay.com/tickets/new/1"
CreateUrl == "https://support.funpay.com/tickets/create/1"

\* a response: status, Location header, PHPSESSID cookie set ("" for none)
\* and kind of body; status 0 stands for a request that raised
Response(status, location, cookie, content) ==
  [status |-> status, location |-> location, cookie |-> cookie,
   content |-> content]

Finals == {"ok", "root", "bare", "error"}

\* what the backend does with the requests of one call of method: it
\* answers the first `redirects` of them with a redirect of status `via` to
\* another location, and the next one with `final`: a 200, a redirect to
\* "/", a redirect without Location, or no answer at all (the request
\* raises); a request after that gets a 200
Scripts(cookies, contents) ==
  [redirects : 0..MaxRedirects, via : {302, 307}, final : Finals,
   cookie : cookies, content : contents]

\* the response to the n-th request of the call
answer(s, n) ==
  IF n <= s.redirects THEN Response(s.via, "/a", "", "other")
  ELSE IF n > s.redirects + 1 THEN Response(200, None, "", s.content)
  ELSE IF s.final = "ok" THEN Response(200, None, s.cookie, s.content)
  ELSE IF s.final = "root" THEN Response(302, "/", s.cookie, s.content)
  ELSE IF s.final = "bare" THEN Response(302, None, s.cookie, s.content)
  ELSE Response(0, None, "", "other")

\* the Cookie header of lines 160-161
cookie_header(phpsessid, exclude_phpsessid) ==
  [golden_key |-> TRUE,
   phpsessid |-> IF phpsessid # "" /\ ~exclude_phpsessid THEN phpsessid
                 ELSE ""]

\* a request on the wire: who issued it (method itself, or the requests
\* library following a redirect), verb, link, Cookie header, and the
\* ticket[_token] of its payload (0 for none)
Request(by, verb, link, cookie, token) ==
  [by |-> by, verb |-> verb, link |-> link, cookie |-> cookie,
   token |-> token]

\* the negation of the break condition of line 170
is_redirect(response) ==
  /\ 300 <= response.status /\ response.status < 400
  /\ response.location # None /\ response.location # "/"

\* the for loop of lines 166-172 from iteration i on: the requests sent,
\* the response it ends with, whether a request raised, and whether the
\* loop ran out (the else of line 173)
RECURSIVE method_loop(_, _, _, _)
method_loop(req, s, i, link) ==
  LET sent == [req EXCEPT !.link = link]
      response == answer(s, i + 1)
  IN IF response.status = 0
     THEN [sent |-> <<sent>>, response |-> response, raised |-> TRUE,
           exhausted |-> FALSE]
     ELSE IF ~is_redirect(response)
     THEN [sent |-> <<sent>>, response |-> response, raised |-> FALSE,
           exhausted |-> FALSE]
     ELSE IF i + 1 = MaxHops
     THEN [sent |-> <<sent>>, response |-> response, raised |-> FALSE,
           exhausted |-> TRUE]
     ELSE LET rest == method_loop(req, s, i + 1, response.location)
          IN [rest EXCEPT !.sent = <<sent>> \o @]

\* the request of lines 174-175 is made without allow_redirects=False, so
\* the requests library follows redirects itself: any 3xx with a Location,
\* at most RedirectLimit of them; the request it builds for a redirect has
\* the Cookie header removed, and unless the status is 307 the verb turned
\* into GET and the payload dropped.  n is the number of the request within
\* the call, hops the redirects followed so far.
library_redirect(response) ==
  response.status \in {301, 302, 303, 307, 308} /\ response.location # None

rebuilt(req, response) ==
  Request("requests",
          IF response.status \in {307, 308} THEN req.verb ELSE "get",
          response.location,
          [golden_key |-> FALSE, phpsessid |-> ""],
          IF response.status \in {307, 308} THEN req.token ELSE 0)

RECURSIVE requests_follow(_, _, _, _)
requests_follow(req, s, n, hops) ==
  LET response == answer(s, n)
  IN IF response.status = 0
     THEN [sent |-> <<req>>, response |-> response, raised |-> TRUE]
     ELSE IF ~library_redirect(response)
     THEN [sent |-> <<req>>, response |-> response, raised |-> FALSE]
     ELSE IF hops = RedirectLimit
     THEN [sent |-> <<req>>, response |-> response, raised |-> TRUE]
     ELSE LET rest == requests_follow(rebuilt(req, response), s, n + 1,
                                      hops + 1)
          IN [rest EXCEPT !.sent = <<req>> \o @]

\* FunPaySupportAPI.method (lines 158-176)
method(self, verb, url, token, exclude_phpsessid, s) ==
  LET req == Request("method", verb, url,
                     cookie_header(self.phpsessid, exclude_phpsessid), token)
      loop == method_loop(req, s, 0, url)
      fallback == requests_follow(req, s, MaxHops + 1, 0)
  IN IF ~loop.exhausted
     THEN [sent |-> loop.sent, response |-> loop.response,
           raised |-> loop.raised]
     ELSE [fallback EXCEPT !.sent = loop.sent \o @]

\* __init__ (lines 148-156)
NewApi == [at |-> "new", phpsessid |-> "", csrf_token |-> ""]

NoCall == [step |-> "none", sent |-> <<>>,
           response |-> Response(0, None, "", "other"), raised |-> FALSE]

PortalIdle ==
  /\ support_api = NewApi
  /\ ticket_token = 0
  /\ forms_loaded = 0
  /\ wire = NoCall
  /\ token_posts = [t \in 1..MaxForms |-> 0]

\* the calls of method, in the order of get and create_ticket
SessionCall(s) == method(support_api, "get", RootUrl, 0, TRUE, s)
ConfigCall(s) == method(support_api, "get", RootUrl, 0, FALSE, s)
FormCall(s) == method(support_api, "get", FormUrl, 0, FALSE, s)
PostCall(s) == method(support_api, "post", CreateUrl, ticket_token, FALSE, s)

\* get, lines 179-181: the request without PHPSESSID, and the session
\* cookie of its response kept.  get can be called on an instance again.
GetSession(s) ==
  /\ support_api.at \in {"new", "ready"}
  /\ LET r == SessionCall(s)
     IN support_api' =
          IF r.raised THEN [support_api EXCEPT !.at = "failed"]
          ELSE [support_api EXCEPT
                  !.at = "boot",
                  !.phpsessid = IF r.response.cookie # ""
                                THEN r.response.cookie ELSE @]
  /\ UNCHANGED <<ticket_token, forms_loaded>>

\* get, lines 182-189: the page is fetched again and its data-app-config
\* parsed; a body without it raises
GetConfig(s) ==
  /\ support_api.at = "boot"
  /\ LET r == ConfigCall(s)
     IN support_api' =
          IF r.raised \/ r.response.content # "config"
          THEN [support_api EXCEPT !.at = "failed"]
          ELSE [support_api EXCEPT !.at = "ready", !.csrf_token = "csrf"]
  /\ UNCHANGED <<ticket_token, forms_loaded>>

\* create_ticket, line 204: get_ticket_token (lines 191-201); every form
\* the backend serves embeds a token of its own
GetTicketToken(s) ==
  /\ support_api.at = "ready"
  /\ forms_loaded < MaxForms
  /\ LET r == FormCall(s)
     IN IF r.raised \/ r.response.content # "form"
        THEN /\ support_api' = [support_api EXCEPT !.at = "failed"]
             /\ UNCHANGED <<ticket_token, forms_loaded>>
        ELSE /\ support_api' = [support_api EXCEPT !.at = "form"]
             /\ forms_loaded' = forms_loaded + 1
             /\ ticket_token' = forms_loaded + 1

\* create_ticket, lines 205-221: the POST of the form and r.json()
PostTicket(s) ==
  /\ support_api.at = "form"
  /\ LET r == PostCall(s)
     IN support_api' =
          IF r.raised \/ r.response.content # "json"
          THEN [support_api EXCEPT !.at = "failed"]
          ELSE [support_api EXCEPT !.at = "done"]
  /\ UNCHANGED <<ticket_token, forms_loaded>>

\* the next order gets an instance of its own (line 235)
NewInstance ==
  /\ support_api.at \in {"done", "failed"}
  /\ support_api' = NewApi
  /\ ticket_token' = 0
  /\ UNCHANGED forms_loaded

\* record of a call of method: the step, the requests, the response
RecordCall(step, r) ==
  wire' = [step |-> step, sent |-> r.sent, response |-> r.response,
           raised |-> r.raised]

\* record of the POST requests to the ticket-creation URL that carried the
\* token of the form, counted up to 2
RecordPosts(r) ==
  LET n == Cardinality({i \in 1..Len(r.sent) :
                          /\ r.sent[i].verb = "post"
                          /\ r.sent[i].link = CreateUrl
                          /\ r.sent[i].token = ticket_token})
  IN token_posts' = [token_posts EXCEPT
                       ![ticket_token] = IF @ + n > 2 THEN 2 ELSE @ + n]

(***************************************************************************)
(* SpecScan: get_old_orders_for_ticket on its own, for every ledger,       *)
(* every (age_hours, max_count) explored and every answer of the source    *)
(***************************************************************************)
ScanAges == {1, DefaultAge}

Ledgers == {<<>>, <<"A">>, <<"B">>, <<"A", "B">>}

\* every handler thread idle, but thread 1 placed at f with the list l
IdleRuns(f, l) ==
  /\ pc = [r \in Runs |-> IF r = 1 THEN f ELSE "idle"]
  /\ old_orders_ids = [r \in Runs |-> <<>>]
  /\ page_count = [r \in Runs |-> 0]
  /\ start_from = [r \in Runs |-> None]
  /\ fetches = [r \in Runs |-> 0]
  /\ last_page = [r \in Runs |-> <<>>]
  /\ last_answer = [r \in Runs |-> NoAnswer]
  /\ offered = [r \in Runs |-> [ids |-> {}, unsent |-> 0]]
  /\ orders = [r \in Runs |-> IF r = 1 THEN l ELSE <<>>]
  /\ idx = [r \in Runs |-> 0]
  /\ reported_successfully = [r \in Runs |-> <<>>]
  /\ requests = [r \in Runs |-> <<>>]
  /\ outcomes = [r \in Runs |-> <<>>]
  /\ pauses = [r \in Runs |-> 0]
  /\ tickets = [o \in Orders |-> 0]
  /\ last_edit = NoEdit
  /\ calls = IF l = <<>> THEN <<>> ELSE <<l>>
  /\ PortalIdle

InitScan ==
  /\ SETTINGS \in {Settings(a, c, l) :
                     a \in ScanAges, c \in 1..MaxBatch, l \in Ledgers}
  /\ settings_file = save(SETTINGS)
  /\ IdleRuns("scan", <<>>)
  /\ age_hours = [r \in Runs |-> IF r = 1 THEN SETTINGS.order_age_hours
                                 ELSE 0]
  /\ max_count = [r \in Runs |-> IF r = 1 THEN SETTINGS.max_orders_in_ticket
                                 ELSE 0]

NextScan ==
  \E res \in SalesResults :
    /\ ScanFetch(1, res) /\ RecordFetch(1) /\ RecordOffered(1, res)
    /\ UNCHANGED <<last_page, last_answer, loop_log, tickets, calls,
                   last_edit, portal_vars>>

SpecScan == InitScan /\ [][NextScan]_vars

\* the event loop runs the scan's coroutine until it completes (line 324)
SpecScanFair == SpecScan /\ WF_vars(NextScan)

(***************************************************************************)
(* C2: the list the scan collects and returns holds no id that the ledger  *)
(* holds at the time of the scan.                                          *)
(***************************************************************************)
ScanExcludesSent ==
  \A id \in Range(old_orders_ids[1]) \cup Range(orders[1]) :
    id \notin Range(SETTINGS.sent_order_ids)

\* the scan was shown an old order that the ledger holds, and returned
\* another order
ScanExcludesSentWitness ==
  /\ pc[1] = "scanned" /\ orders[1] # <<>>
  /\ offered[1].ids \cap Range(SETTINGS.sent_order_ids) # {}

(***************************************************************************)
(* C3: the scan never holds and never returns more than max_count ids.     *)
(***************************************************************************)
ScanAtMostMaxCount ==
  /\ Len(orders[1]) <= max_count[1]
  /\ Len(old_orders_ids[1]) <= max_count[1]

\* the scan was shown more old unsent orders than max_count and returned
\* max_count of them
ScanAtMostMaxCountWitness ==
  /\ pc[1] = "scanned" /\ Len(orders[1]) = max_count[1]
  /\ offered[1].unsent > max_count[1]

(***************************************************************************)
(* C4: the scan calls get_sales at most max_pages times and terminates.    *)
(***************************************************************************)
ScanTerminates ==
  /\ [](fetches[1] <= max_pages)
  /\ <>(pc[1] = "scanned")

\* the source kept answering with a page and a cursor: ten pages fetched
ScanTerminatesWitness ==
  /\ pc[1] = "scanned" /\ fetches[1] = max_pages
  /\ start_from[1] # None

(***************************************************************************)
(* SpecReport: report_deal_problems on its own, for every non-empty list   *)
(* of order ids and every answer of the order source and of the portal     *)
(***************************************************************************)
OrderLists == SeqsUpTo(Orders, MaxBatch) \ {<<>>}

InitReport ==
  /\ SETTINGS = Settings(DefaultAge, MaxBatch, <<>>)
  /\ settings_file = save(SETTINGS)
  /\ \E l \in OrderLists : IdleRuns("report", l)
  /\ age_hours = [r \in Runs |-> 0]
  /\ max_count = [r \in Runs |-> 0]

\* one response of every kind the condition of line 241 tells apart
ReportResponses ==
  {ResponseSent, ResponseError, NotDict,
   Dict(Str(<<"message">>), Null, Str(TicketUrl)),
   Dict(Str(<<"message">>), Str(SuccessPhrase), Null),
   Dict(Str(<<"message">>), Str(SuccessPhrase), Str(OtherUrl))}

ReportOutcomes == OutcomesOver(ReportResponses)

NextReport ==
  \E o \in ReportOutcomes :
    /\ ReportOne(1, o) /\ RecordOrder(1, o) /\ RecordTicket(1, o)
    /\ UNCHANGED <<scan_log, calls, last_edit, portal_vars>>

SpecReport == InitReport /\ [][NextReport]_vars

(***************************************************************************)
(* SpecSubmit: _report_deal_problem_raw for one order, for every answer of *)
(* the order source and every response of the portal                       *)
(***************************************************************************)
InitSubmit ==
  /\ SETTINGS = Settings(DefaultAge, MaxBatch, <<>>)
  /\ settings_file = save(SETTINGS)
  /\ \E id \in Orders : IdleRuns("report", <<id>>)
  /\ age_hours = [r \in Runs |-> 0]
  /\ max_count = [r \in Runs |-> 0]

NextSubmit ==
  \E o \in Outcomes :
    /\ ReportOne(1, o) /\ RecordOrder(1, o) /\ RecordTicket(1, o)
    /\ UNCHANGED <<scan_log, calls, last_edit, portal_vars>>

SpecSubmit == InitSubmit /\ [][NextSubmit]_vars

(***************************************************************************)
(* C7: report_deal_problems handles every id of its list in input order,   *)
(* never raises, and returns exactly the ids whose submission met the      *)
(* success rule, whatever failed for the orders before.                    *)
(***************************************************************************)
\* what the order handled last ran into
last_outcome(r) == outcomes[r][Len(outcomes[r])]

handled(r) == outcomes[r] # <<>>

\* the ids, among the first n of the list, whose submission met the rule
RECURSIVE met_among(_, _, _)
met_among(ids, outs, n) ==
  IF n = 0 THEN <<>>
  ELSE met_among(ids, outs, n - 1)
       \o (IF submission_met_rule(outs[n]) THEN <<ids[n]>> ELSE <<>>)

ReportContainsFailures ==
  /\ pc[1] # "raised"
  /\ Len(outcomes[1]) = idx[1]
  /\ reported_successfully[1] = met_among(orders[1], outcomes[1], idx[1])
  /\ pc[1] = "notify" => idx[1] = Len(orders[1])

\* the loop returned after an order for which the form had no token, which
\* raises inside, and a later order that was escalated
ReportContainsFailuresWitness ==
  /\ pc[1] = "notify" /\ Len(orders[1]) >= 2
  /\ outcomes[1][1].portal = "no_token"
  /\ submission_met_rule(outcomes[1][2])
  /\ reported_successfully[1] = <<orders[1][2]>>

(***************************************************************************)
(* C8: an order whose status is not PAID, or whose status lookup raises,   *)
(* causes no request to the support portal and is not reported; the status *)
(* lookup is the first call made for every order.                          *)
(***************************************************************************)
PortalRequests == {PortalSteps[i].request : i \in 1..Len(PortalSteps)}

StatusCheckedFirst ==
  handled(1) =>
    /\ requests[1] # <<>> /\ requests[1][1] = "get_order"
    /\ \A i \in 2..Len(requests[1]) : requests[1][i] \in PortalRequests
    /\ last_outcome(1).lookup # PAID =>
         /\ requests[1] = <<"get_order">>
         /\ orders[1][idx[1]] \notin Range(reported_successfully[1])

\* an order found CLOSED was handled: one status lookup, nothing reported
StatusCheckedFirstWitness ==
  /\ handled(1) /\ last_outcome(1).lookup = "CLOSED"
  /\ requests[1] = <<"get_order">> /\ reported_successfully[1] = <<>>

(***************************************************************************)
(* C9: an order whose ticket POST got a JSON response is reported if and   *)
(* only if the response meets the success rule, and no response makes      *)
(* _report_deal_problem_raw raise.                                         *)
(***************************************************************************)
SuccessIffRule ==
  /\ pc[1] # "raised"
  /\ (handled(1) /\ last_outcome(1).portal = "json") =>
       (reported_successfully[1] = orders[1]
          <=> meets_success_rule(last_outcome(1).response))
  /\ (handled(1) /\ ~meets_success_rule(last_outcome(1).response)) =>
       reported_successfully[1] = <<>>

\* the response of scenario C, its phrase in another case, was a success
SuccessIffRuleWitness ==
  /\ handled(1) /\ last_outcome(1).response = ResponseSent
  /\ reported_successfully[1] = orders[1]

(***************************************************************************)
(* Spec: the plugin with one handler thread, so that runs do not overlap:  *)
(* runs of act_send_ticket, settings edits and process restarts            *)
(***************************************************************************)
PipelinePages == SeqsUpTo([id : Orders, date : {DateOld, DateNew}], 1)

PipelineSales ==
  {[kind |-> "error", next |-> None, page |-> <<>>]}
  \cup [kind : {"ok"}, next : Cursors, page : PipelinePages]

PipelineOutcomes ==
  {Outcome("error", "none", NoResponse), Outcome("CLOSED", "none", NoResponse),
   Outcome(PAID, "post_error", NoResponse), Outcome(PAID, "json", ResponseSent),
   Outcome(PAID, "json", ResponseError)}

PipelineTexts ==
  {NoText, Text(<<"x">>)} \cup {Text(<<Digits[k + 1]>>) : k \in 0..MaxBatch}

\* the order source lists every order once: a page never shows an order
\* that the scan has collected from an earlier page
shown_once(r, res) ==
  \A i \in 1..Len(res.page) : res.page[i].id \notin Range(old_orders_ids[r])

Init ==
  /\ settings_file \in {save(Settings(1, c, <<>>)) : c \in 1..MaxBatch}
  /\ SETTINGS = load(settings_file)
  /\ IdleRuns("idle", <<>>)
  /\ age_hours = [r \in Runs |-> 0]
  /\ max_count = [r \in Runs |-> 0]

\* of what the runs do, Spec records the tickets only
no_log == <<scan_log, loop_log, calls, last_edit, portal_vars>>

Next ==
  \/ \E answer_ok \in BOOLEAN, tg \in TgOutcomes :
       ActSendTicket(1, answer_ok, tg) /\ UNCHANGED <<no_log, tickets>>
  \/ \E res \in PipelineSales :
       /\ shown_once(1, res)
       /\ ScanFetch(1, res) /\ UNCHANGED <<no_log, tickets>>
  \/ \E tg \in TgOutcomes : AfterScan(1, tg) /\ UNCHANGED <<no_log, tickets>>
  \/ \E o \in PipelineOutcomes :
       ReportOne(1, o) /\ RecordTicket(1, o) /\ UNCHANGED no_log
  \/ \E tg \in TgOutcomes, alert_ok \in BOOLEAN :
       Finish(1, tg, alert_ok) /\ UNCHANGED <<no_log, tickets>>
  \/ \E text \in PipelineTexts :
       EditTime(text) /\ UNCHANGED <<no_log, tickets>>
  \/ \E text \in PipelineTexts :
       EditCount(text) /\ UNCHANGED <<no_log, tickets>>
  \/ Restart /\ UNCHANGED <<no_log, tickets>>

Spec == Init /\ [][Next]_vars

(***************************************************************************)
(* C1: over runs that do not overlap and share the saved ledger, restarts  *)
(* included, no order id has a ticket submitted successfully twice.        *)
(***************************************************************************)
AtMostOneTicket == \A id \in Orders : tickets[id] <= 1

(***************************************************************************)
(* C6: a run whose loop returned at least one id ends with these ids       *)
(* appended to the ledger and the ledger saved, whatever the reporting of  *)
(* the result to the operator ran into; and the ledger changes at no other *)
(* step of a run.                                                          *)
(***************************************************************************)
MergedOncePerRun ==
  [][/\ (/\ pc[1] = "notify" /\ pc'[1] # "notify"
         /\ reported_successfully[1] # <<>>) =>
          /\ SETTINGS'.sent_order_ids =
               SETTINGS.sent_order_ids \o reported_successfully[1]
          /\ settings_file' = save(SETTINGS')
     /\ pc[1] \in {"scan", "scanned", "report"} =>
          SETTINGS'.sent_order_ids = SETTINGS.sent_order_ids]_<<pc, SETTINGS, settings_file>>

(***************************************************************************)
(* SpecTwice: report_deal_problems and the merge, called twice with the    *)
(* same list of distinct ids, the support portal answering every ticket    *)
(* POST with a response that meets the success rule                        *)
(***************************************************************************)
DistinctLists == {l \in OrderLists : \A i, j \in 1..Len(l) : l[i] = l[j] => i = j}

SuccessOutcomes == {o \in Outcomes : submission_met_rule(o)}

TgFine == [edit_ok |-> TRUE, answer_ok |-> TRUE]

InitTwice ==
  /\ SETTINGS = Settings(DefaultAge, MaxBatch, <<>>)
  /\ settings_file = save(SETTINGS)
  /\ \E l \in DistinctLists : IdleRuns("report", l)
  /\ age_hours = [r \in Runs |-> 0]
  /\ max_count = [r \in Runs |-> 0]

\* the call of line 329, made once more with the list of the first call
CallAgain(r) ==
  /\ pc[r] = "idle" /\ Len(calls) = 1
  /\ pc' = [pc EXCEPT ![r] = "report"]
  /\ orders' = [orders EXCEPT ![r] = calls[1]]
  /\ calls' = Append(calls, calls[1])
  /\ UNCHANGED <<SETTINGS, settings_file, scan_vars, loop_vars>>

NextTwice ==
  \/ \E o \in SuccessOutcomes :
       /\ ReportOne(1, o) /\ RecordOrder(1, o) /\ RecordTicket(1, o)
       /\ UNCHANGED <<scan_log, calls, last_edit, portal_vars>>
  \/ /\ Finish(1, TgFine, TRUE)
     /\ UNCHANGED <<scan_log, loop_log, tickets, calls, last_edit, portal_vars>>
  \/ /\ CallAgain(1)
     /\ outcomes' = [outcomes EXCEPT ![1] = <<>>]
     /\ UNCHANGED <<scan_log, requests, pauses, tickets, last_edit, portal_vars>>

SpecTwice == InitTwice /\ [][NextTwice]_vars

(***************************************************************************)
(* C5: after two such runs on the same list the ledger holds each id of    *)
(* the list exactly once.                                                  *)
(***************************************************************************)
both_merged == Len(calls) = 2 /\ pc[1] = "idle"

MergeIdempotent ==
  both_merged =>
    \A id \in Range(calls[1]) : Count(SETTINGS.sent_order_ids, id) = 1

(***************************************************************************)
(* SpecCfg: the two settings handlers and process restarts, for every      *)
(* content of the settings file and the texts of CfgTexts                  *)
(***************************************************************************)
CfgTexts ==
  {NoText} \cup
  {Text(v) : v \in {<<"x">>, <<"-", "1">>, <<"0">>, <<"1">>, <<"5", "0">>,
                    <<"5", "1">>, <<"7", "2", "0">>, <<"7", "2", "1">>}}

CfgFiles ==
  {NoFile, [state |-> "corrupt", data |-> DefaultSettings],
   JsonFile(Settings(0, DefaultCount, <<"A">>))}
  \cup {JsonFile(Settings(a, c, l)) :
          a \in {AgeMin, AgeMax}, c \in {CountMin, CountMax},
          l \in {<<>>, <<"A">>}}

InitCfg ==
  /\ settings_file \in CfgFiles
  /\ SETTINGS = load(settings_file)
  /\ IdleRuns("idle", <<>>)
  /\ age_hours = [r \in Runs |-> 0]
  /\ max_count = [r \in Runs |-> 0]

cfg_log == <<scan_log, loop_log, tickets, calls, portal_vars>>

NextCfg ==
  \/ \E text \in CfgTexts :
       EditTime(text) /\ RecordEdit("time", text) /\ UNCHANGED cfg_log
  \/ \E text \in CfgTexts :
       EditCount(text) /\ RecordEdit("count", text) /\ UNCHANGED cfg_log
  \/ Restart /\ last_edit' = NoEdit /\ UNCHANGED cfg_log

SpecCfg == InitCfg /\ [][NextCfg]_vars

(***************************************************************************)
(* C10: an edit of order_age_hours is applied and saved exactly when the   *)
(* text is an integer of 1..720, one of max_orders_in_ticket exactly when  *)
(* it is an integer of 1..50; any other edit leaves the settings and the   *)
(* file as they were; both settings always stay within their bounds.       *)
(***************************************************************************)
\* the numbers a text can be accepted as: those of lo..hi that it denotes
accepted_values(text, lo, hi) ==
  {n \in lo..hi : int(text).ok /\ int(text).val = n}

edit_outcome_ok(field, lo, hi) ==
  LET ok == accepted_values(last_edit.text, lo, hi)
  IN IF ok # {}
     THEN /\ \A n \in ok :
               SETTINGS = [last_edit.settings EXCEPT ![field] = n]
          /\ settings_file = JsonFile(SETTINGS)
     ELSE /\ SETTINGS = last_edit.settings
          /\ settings_file = last_edit.file

EditsValidated ==
  /\ SETTINGS.order_age_hours \in 1..720
  /\ SETTINGS.max_orders_in_ticket \in 1..50
  /\ last_edit.field = "time" => edit_outcome_ok("order_age_hours", 1, 720)
  /\ last_edit.field = "count" =>
       edit_outcome_ok("max_orders_in_ticket", 1, 50)

\* 720 hours and 50 orders were accepted, then 721 hours was refused, and
\* no file was written for it
EditsValidatedWitness ==
  /\ last_edit.field = "time" /\ last_edit.text = Text(<<"7", "2", "1">>)
  /\ SETTINGS.order_age_hours = 720 /\ SETTINGS.max_orders_in_ticket = 50
  /\ settings_file = JsonFile(SETTINGS)

(***************************************************************************)
(* SpecPortal: one FunPaySupportAPI instance after the other, each taken   *)
(* through get and create_ticket, for every script of the backend          *)
(***************************************************************************)
SessionScripts == Scripts({"", "s1", "s2"}, {"other"})
ConfigScripts == Scripts({""}, {"config", "other"})
FormScripts == Scripts({""}, {"form", "other"})
PostScripts == Scripts({""}, {"json", "other"})

plugin_vars == <<SETTINGS, settings_file, pc, scan_vars, orders, loop_vars,
                 scan_log, loop_log, tickets, calls, last_edit>>

InitPortal ==
  /\ SETTINGS = DefaultSettings
  /\ settings_file = save(SETTINGS)
  /\ IdleRuns("idle", <<>>)
  /\ age_hours = [r \in Runs |-> 0]
  /\ max_count = [r \in Runs |-> 0]

NextPortal ==
  \/ \E s \in SessionScripts :
       /\ GetSession(s) /\ RecordCall("session", SessionCall(s))
       /\ UNCHANGED <<token_posts, plugin_vars>>
  \/ \E s \in ConfigScripts :
       /\ GetConfig(s) /\ RecordCall("config", ConfigCall(s))
       /\ UNCHANGED <<token_posts, plugin_vars>>
  \/ \E s \in FormScripts :
       /\ GetTicketToken(s) /\ RecordCall("form", FormCall(s))
       /\ UNCHANGED <<token_posts, plugin_vars>>
  \/ \E s \in PostScripts :
       /\ PostTicket(s) /\ RecordCall("post", PostCall(s))
       /\ RecordPosts(PostCall(s))
       /\ UNCHANGED plugin_vars
  \/ /\ NewInstance /\ wire' = NoCall
     /\ UNCHANGED <<token_posts, plugin_vars>>

SpecPortal == InitPortal /\ [][NextPortal]_vars

(***************************************************************************)
(* C11: one call of method causes at most 11 HTTP requests, all of them    *)
(* issued by method itself with no redirect followed on its behalf, and    *)
(* the response it returns within the hop limit is not a redirect that it  *)
(* follows.                                                                *)
(***************************************************************************)
RedirectsBounded ==
  /\ Len(wire.sent) <= MaxHops + 1
  /\ \A i \in 1..Len(wire.sent) : wire.sent[i].by = "method"
  /\ (wire.step # "none" /\ ~wire.raised /\ Len(wire.sent) <= MaxHops) =>
       ~is_redirect(wire.response)

(***************************************************************************)
(* C12: every request of a call of method carries the golden_key cookie;   *)
(* the requests of the first call of get carry no PHPSESSID, also when the *)
(* instance holds one; the requests of every later call carry the          *)
(* PHPSESSID that the instance holds.                                      *)
(***************************************************************************)
CookiesCarried ==
  \A i \in 1..Len(wire.sent) :
    /\ wire.sent[i].cookie.golden_key
    /\ wire.step = "session" => wire.sent[i].cookie.phpsessid = ""
    /\ wire.step \in {"config", "form", "post"} =>
         wire.sent[i].cookie.phpsessid = support_api.phpsessid

(***************************************************************************)
(* C13: create_ticket posts the token of a form it has just loaded, and no *)
(* token is carried by more than one POST to the ticket-creation URL.      *)
(***************************************************************************)
TokenSingleUse ==
  /\ support_api.at = "form" =>
       ticket_token = forms_loaded /\ token_posts[ticket_token] = 0
  /\ \A t \in 1..MaxForms : token_posts[t] <= 1

(***************************************************************************)
(* SpecOnePage: the scan against an order source that has one page (no     *)
(* cursor comes with it), for every such page                              *)
(***************************************************************************)
DateOlder == [shape |-> "iso", ts |-> Now - 40]

OnePageLen == MaxPageLen + 1

OnePages ==
  SeqsUpTo([id : Orders \cup {"C"}, date : Dates \cup {DateOlder}],
           OnePageLen)

\* 2 hours puts the cutoff exactly at the date of DateNew
OnePageAges == {2, DefaultAge}

InitOnePage ==
  /\ SETTINGS \in {Settings(a, c, l) :
                     a \in OnePageAges, c \in 1..MaxBatch \cup {DefaultCount},
                     l \in {<<>>, <<"A">>}}
  /\ settings_file = save(SETTINGS)
  /\ IdleRuns("scan", <<>>)
  /\ age_hours = [r \in Runs |-> IF r = 1 THEN SETTINGS.order_age_hours
                                 ELSE 0]
  /\ max_count = [r \in Runs |-> IF r = 1 THEN SETTINGS.max_orders_in_ticket
                                 ELSE 0]

NextOnePage ==
  /\ pc[1] = "scan"
  /\ \E page \in OnePages :
       LET res == [kind |-> "ok", next |-> None, page |-> page]
       IN /\ ScanFetch(1, res)
          /\ RecordFetch(1) /\ RecordPage(1, res) /\ RecordAnswer(1, res)
          /\ UNCHANGED <<offered, loop_log, tickets, calls, last_edit,
                         portal_vars>>

SpecOnePage == InitOnePage /\ [][NextOnePage]_vars

(***************************************************************************)
(* C14: from a source with a single page the scan returns, in page order,  *)
(* the first max_count orders of the page whose date parses, is strictly   *)
(* before now - age_hours, and whose id the ledger does not hold.          *)
(***************************************************************************)
\* the ids of the orders of a page that the claim's three conditions select
RECURSIVE eligible(_, _, _)
eligible(page, age, sent) ==
  IF page = <<>> THEN <<>>
  ELSE (IF /\ Head(page).date.shape \in ParseableShapes
           /\ Head(page).date.ts < Now - age
           /\ Head(page).id \notin Range(sent)
        THEN <<Head(page).id>> ELSE <<>>)
       \o eligible(Tail(page), age, sent)

OnePageResult ==
  pc[1] = "scanned" =>
    orders[1] = Take(eligible(last_page[1], age_hours[1],
                              SETTINGS.sent_order_ids), max_count[1])

\* scenario A: orders of 30, 2 and 40 hours, age 24, batch 10: the first and
\* the third are returned
OnePageResultWitness ==
  /\ pc[1] = "scanned" /\ age_hours[1] = 24 /\ max_count[1] = 10
  /\ last_page[1] = << [id |-> "A", date |-> DateOld],
                       [id |-> "B", date |-> DateNew],
                       [id |-> "C", date |-> DateOlder] >>
  /\ orders[1] = <<"A", "C">>

(***************************************************************************)
(* SpecPages: the scan page by page, with the page and the cursor of every *)
(* fetch on record, against a source that lists one order id               *)
(***************************************************************************)
PagesResults ==
  {[kind |-> "error", next |-> None, page |-> <<>>]}
  \cup [kind : {"ok"}, next : Cursors,
        page : SeqsUpTo([id : {"A"}, date : Dates], MaxPageLen)]

InitPages ==
  /\ SETTINGS \in {Settings(a, c, l) :
                     a \in ScanAges, c \in 1..MaxBatch, l \in {<<>>, <<"A">>}}
  /\ settings_file = save(SETTINGS)
  /\ IdleRuns("scan", <<>>)
  /\ age_hours = [r \in Runs |-> IF r = 1 THEN SETTINGS.order_age_hours
                                 ELSE 0]
  /\ max_count = [r \in Runs |-> IF r = 1 THEN SETTINGS.max_orders_in_ticket
                                 ELSE 0]

NextPages ==
  /\ pc[1] = "scan"
  /\ \E res \in PagesResults :
       /\ ScanFetch(1, res)
       /\ RecordFetch(1) /\ RecordPage(1, res) /\ RecordAnswer(1, res)
       /\ UNCHANGED <<offered, loop_log, tickets, calls, last_edit,
                      portal_vars>>

SpecPages == InitPages /\ [][NextPages]_vars

(***************************************************************************)
(* C15: a page whose dated orders are all at or after the cutoff is the    *)
(* last page fetched; after a page with at least one dated order before    *)
(* the cutoff the scan goes on to the next page when the batch is not      *)
(* full, a cursor came with the page and fewer than 10 pages were fetched. *)
(***************************************************************************)
\* the times of the orders of a page whose date parses
dated(page) ==
  {page[i].date.ts : i \in {k \in 1..Len(page) :
                              page[k].date.shape \in ParseableShapes}}

page_not_older(page, age) ==
  dated(page) # {} /\ \A t \in dated(page) : t >= Now - age

page_has_older(page, age) == \E t \in dated(page) : t < Now - age

\* this step is a fetch that gave a page with orders
page_step ==
  /\ fetches'[1] = fetches[1] + 1
  /\ last_answer'[1].kind = "ok" /\ last_page'[1] # <<>>

EarlyStop ==
  /\ [][page_step =>
          /\ page_not_older(last_page'[1], age_hours[1]) =>
               pc'[1] = "scanned"
          /\ (/\ page_has_older(last_page'[1], age_hours[1])
              /\ Len(old_orders_ids'[1]) < max_count[1]
              /\ last_answer'[1].next # None
              /\ fetches'[1] < max_pages) =>
               /\ pc'[1] = "scan"
               /\ start_from'[1] = last_answer'[1].next
               /\ page_count'[1] < max_pages]_vars
  /\ [][pc[1] = "scanned" => fetches'[1] = fetches[1]]_vars

\* after a page from which an order was collected, a second page with only
\* newer orders ended the scan, though it came with a cursor and the batch
\* was not full
EarlyStopWitness ==
  /\ pc[1] = "scanned" /\ fetches[1] = 2
  /\ page_not_older(last_page[1], age_hours[1])
  /\ last_answer[1].next # None
  /\ orders[1] # <<>> /\ Len(orders[1]) < max_count[1]

(***************************************************************************)
(* C16: an order whose date does not parse is never collected and has no   *)
(* part in the early stop; a page of such orders only does not end the     *)
(* scan; a fetch that raises ends it with the ids collected so far.        *)
(***************************************************************************)
\* the page without the orders whose date does not parse
RECURSIVE without_undated(_)
without_undated(page) ==
  IF page = <<>> THEN <<>>
  ELSE (IF Head(page).date.shape \in ParseableShapes THEN <<Head(page)>>
        ELSE <<>>) \o without_undated(Tail(page))

fetch_step == fetches'[1] = fetches[1] + 1

SentinelExcluded ==
  [][fetch_step =>
       LET page == last_page'[1]
           rest == without_undated(page)
           found == eligible(rest, age_hours[1], SETTINGS.sent_order_ids)
       IN /\ last_answer'[1].kind = "error" =>
               /\ pc'[1] = "scanned"
               /\ orders'[1] = old_orders_ids[1]
          /\ \E n \in 0..Len(found) :
               old_orders_ids'[1] = old_orders_ids[1] \o Take(found, n)
          /\ (page # <<>> /\ rest = <<>>) =>
               /\ old_orders_ids'[1] = old_orders_ids[1]
               /\ (last_answer'[1].next # None /\ fetches'[1] < max_pages) =>
                    pc'[1] = "scan"
          /\ (rest # <<>> /\ rest # page) =>
               (pc'[1] = "scanned" <=>
                  \/ page_not_older(rest, age_hours[1])
                  \/ last_answer'[1].next = None
                  \/ Len(old_orders_ids'[1]) >= max_count[1]
                  \/ fetches'[1] >= max_pages)]_vars

\* after a page from which an order was collected, a page of one old order
\* whose date does not parse: nothing collected from it, the scan goes on
SentinelExcludedWitness ==
  /\ pc[1] = "scan" /\ fetches[1] = 2
  /\ last_page[1] = << [id |-> "A", date |-> DateBad] >>
  /\ old_orders_ids[1] = <<"A">>

(***************************************************************************)
(* C17: report_deal_problems handles every entry of its list once, and the *)
(* handling of an entry calls create_ticket (one form, one POST) at most   *)
(* once; an entry whose submission failed is left out of the result.       *)
(***************************************************************************)
\* the order ran into a failure of its submission: of the portal calls, or
\* a response that does not meet the rule
submission_failed(o) == o.lookup = PAID /\ ~submission_met_rule(o)

OneAttemptPerEntry ==
  /\ Len(outcomes[1]) = idx[1] /\ idx[1] <= Len(orders[1])
  /\ Count(requests[1], "get_form") <= 1
  /\ Count(requests[1], "post_ticket") <= 1
  /\ Len(requests[1]) <= 1 + Len(PortalSteps)
  /\ Len(reported_successfully[1]) =
       idx[1] - Cardinality({i \in 1..idx[1] :
                               ~submission_met_rule(outcomes[1][i])})
  /\ (handled(1) /\ submission_failed(last_outcome(1))) =>
       reported_successfully[1] = met_among(orders[1], outcomes[1], idx[1] - 1)

\* a list of two was handled: the POST of the first got no JSON, the second
\* was refused; one POST each, nothing reported
OneAttemptPerEntryWitness ==
  /\ pc[1] = "notify" /\ Len(orders[1]) = 2
  /\ outcomes[1][1].portal = "non_json"
  /\ outcomes[1][2].response = ResponseError
  /\ Count(requests[1], "post_ticket") = 1
  /\ reported_successfully[1] = <<>>

(***************************************************************************)
(* C19: report_deal_problems handles the orders one at a time in input     *)
(* order, with no pause before the first and one pause before each of the  *)
(* others, whatever the order before ran into.                             *)
(***************************************************************************)
PacedInOrder ==
  /\ [](pauses[1] = IF idx[1] = 0 THEN 0 ELSE idx[1] - 1)
  /\ [][/\ idx'[1] = idx[1] + 1
        /\ Len(outcomes'[1]) = Len(outcomes[1]) + 1
        /\ pauses'[1] = pauses[1] + (IF idx[1] = 0 THEN 0 ELSE 1)
       ]_<<idx, outcomes, pauses>>

\* a list of two was handled, the first order skipped as CLOSED: one pause
PacedInOrderWitness ==
  /\ pc[1] = "notify" /\ idx[1] = 2
  /\ outcomes[1][1].lookup = "CLOSED"
  /\ pauses[1] = 1

(***************************************************************************)
(* C18: the ledger changes only when a run ends, by the ids that its loop  *)
(* returned being appended; scans, runs without a success, orders skipped  *)
(* or failed, settings edits and restarts leave it as it is, and no id is  *)
(* ever taken out of it.                                                   *)
(***************************************************************************)
LedgerOnlyAppended ==
  [][\/ SETTINGS'.sent_order_ids = SETTINGS.sent_order_ids
     \/ /\ pc[1] = "notify" /\ pc'[1] = "idle"
        /\ reported_successfully[1] # <<>>
        /\ SETTINGS'.sent_order_ids =
             SETTINGS.sent_order_ids \o reported_successfully[1]]_vars

\* order A is in the ledger, the age setting was edited, and a later run
\* for order B ended its loop with no success: the ledger is as it was
LedgerOnlyAppendedWitness ==
  /\ SETTINGS.sent_order_ids = <<"A">> /\ SETTINGS.order_age_hours = 2
  /\ pc[1] = "notify" /\ orders[1] = <<"B">>
  /\ reported_successfully[1] = <<>>

(***************************************************************************)
(* SpecRace: two handler threads, each running act_send_ticket when its    *)
(* callback arrives, on the one SETTINGS object                            *)
(***************************************************************************)
\* the Telegram calls of the two runs succeed; the portal accepts or refuses
RaceOutcomes ==
  {Outcome(PAID, "json", ResponseSent), Outcome(PAID, "json", ResponseError)}

NextRace ==
  \E r \in Runs :
    \/ ActSendTicket(r, TRUE, TgFine) /\ UNCHANGED <<no_log, tickets>>
    \/ \E res \in PipelineSales :
         /\ shown_once(r, res)
         /\ ScanFetch(r, res) /\ UNCHANGED <<no_log, tickets>>
    \/ AfterScan(r, TgFine) /\ UNCHANGED <<no_log, tickets>>
    \/ \E o \in RaceOutcomes :
         ReportOne(r, o) /\ RecordTicket(r, o) /\ UNCHANGED no_log
    \/ Finish(r, TgFine, TRUE) /\ UNCHANGED <<no_log, tickets>>

SpecRace == Init /\ [][NextRace]_vars

(***************************************************************************)
(* C20: nothing keeps a run from starting while another is in progress,    *)
(* and every entry of the ledger stands for a ticket submitted; so two     *)
(* runs can both select an order, both submit a ticket for it and both     *)
(* append it to the ledger.                                                *)
(***************************************************************************)
NoRunLock ==
  /\ \A r \in Runs :
       pc[r] = "idle" => ENABLED ActSendTicket(r, TRUE, TgFine)
  /\ \A id \in Orders : Count(SETTINGS.sent_order_ids, id) <= tickets[id]

\* two tickets were submitted for order A and the ledger holds A twice: the
\* source shows a run every order once and a scan leaves out what the
\* ledger holds, so the two entries come from two runs that both scanned
\* before either merged
NoRunLockWitness ==
  /\ tickets["A"] = 2
  /\ SETTINGS.sent_order_ids = <<"A", "A">>
  /\ \A r \in Runs : pc[r] = "idle"

====
